---- MODULE Spec2Model ----
(***************************************************************************)
(* Model of scraper.py: the fetch-merge pipeline that crawls the paginated *)
(* "past lots" endpoint of each auction house and upserts the sold lots    *)
(* into a per-source JSON dataset keyed by row_id.                         *)
(*                                                                         *)
(* Encoding of Python values.  Every Python value is a tuple, so that any  *)
(* two values can be compared:                                             *)
(*   a str   is the tuple of its characters (one-character strings),       *)
(*   None    is <<"None">>   (no str: "None" is not one character),        *)
(*   an int  is <<"int", n>>,                                              *)
(*   a dict  is a function whose DOMAIN is the set of keys that are        *)
(*           present; as the value of a key it is <<"dict", function>>.    *)
(***************************************************************************)
EXTENDS Integers, Sequences, FiniteSets, TLC

None == <<"None">>

PyInt(n) == <<"int", n>>

IsNone(v) == v = None

IsInt(v) == Len(v) = 2 /\ v[1] = "int"

IsDict(v) == Len(v) = 2 /\ v[1] = "dict"

PyDict(f) == <<"dict", f>>

IsStr(v) == ~IsNone(v) /\ ~IsInt(v) /\ ~IsDict(v)

\* Python truthiness of a value: None, "", 0 and {} are falsy.
Truthy(v) == v # None /\ v # <<>> /\ v # PyInt(0) /\ (IsDict(v) => DOMAIN v[2] # {})

\* dict.get(key): the value, or None when the key is absent.
Get(d, k) == IF k \in DOMAIN d THEN d[k] ELSE None

\* a or b
PyOr(a, b) == IF Truthy(a) THEN a ELSE b

EmptyDict == [k \in {} |-> None]

\* (v or {}): the dict itself, or {} for a falsy value
OrEmptyDict(v) == IF Truthy(v) THEN v[2] ELSE EmptyDict

(***************************************************************************)
(* str helpers                                                             *)
(***************************************************************************)
DigitChars == <<"0", "1", "2", "3", "4", "5", "6", "7", "8", "9">>

IsDigit(c) == \E i \in 1..10 : DigitChars[i] = c

DigitVal(c) == (CHOOSE i \in 1..10 : DigitChars[i] = c) - 1

AllDigits(s) == \A i \in 1..Len(s) : IsDigit(s[i])

RECURSIVE ToInt(_)
ToInt(s) == IF s = <<>> THEN 0 ELSE 10 * ToInt(SubSeq(s, 1, Len(s) - 1)) + DigitVal(s[Len(s)])

\* n formatted in decimal, zero-padded to w digits (format spec 0wd).
RECURSIVE Pad(_, _)
Pad(n, w) == IF w = 0 THEN <<>> ELSE Pad(n \div 10, w - 1) \o <<DigitChars[(n % 10) + 1]>>

RECURSIVE IntToStr(_)
IntToStr(n) == IF n < 10 THEN <<DigitChars[n + 1]>> ELSE IntToStr(n \div 10) \o <<DigitChars[(n % 10) + 1]>>

\* str(v) as an f-string formats it
PyStr(v) == IF IsNone(v) THEN <<"N", "o", "n", "e">> ELSE IF IsInt(v) THEN IntToStr(v[2]) ELSE v

IsSpace(c) == c \in {" ", "\t", "\n", "\r"}

RECURSIVE LStrip(_)
LStrip(s) == IF s # <<>> /\ IsSpace(s[1]) THEN LStrip(Tail(s)) ELSE s

RECURSIVE RStrip(_)
RStrip(s) == IF s # <<>> /\ IsSpace(s[Len(s)]) THEN RStrip(SubSeq(s, 1, Len(s) - 1)) ELSE s

\* str.strip()
Strip(s) == RStrip(LStrip(s))

\* str.replace("Z", "+00:00"): every occurrence
RECURSIVE ReplaceZ(_)
ReplaceZ(s) ==
  IF s = <<>> THEN <<>>
  ELSE (IF s[1] = "Z" THEN <<"+", "0", "0", ":", "0", "0">> ELSE <<s[1]>>) \o ReplaceZ(Tail(s))

StartsWith(s, sep) == Len(s) >= Len(sep) /\ SubSeq(s, 1, Len(sep)) = sep

\* str.find(sep): the 1-based index of the first occurrence of sep, 0 when there is none
Find(s, sep) ==
  IF \E i \in 1..Len(s) : StartsWith(SubSeq(s, i, Len(s)), sep)
  THEN CHOOSE i \in 1..Len(s) :
         /\ StartsWith(SubSeq(s, i, Len(s)), sep)
         /\ \A j \in 1..(i - 1) : ~StartsWith(SubSeq(s, j, Len(s)), sep)
  ELSE 0

\* str.split(sep): the list of the parts between the occurrences of sep
RECURSIVE Split(_, _)
Split(s, sep) ==
  IF Find(s, sep) = 0 THEN <<s>>
  ELSE <<SubSeq(s, 1, Find(s, sep) - 1)>> \o Split(SubSeq(s, Find(s, sep) + Len(sep), Len(s)), sep)

\* str.split(sep, 1)[0]: the part before the first occurrence of sep
SplitFirst(s, sep) == IF Find(s, sep) = 0 THEN s ELSE SubSeq(s, 1, Find(s, sep) - 1)

(***************************************************************************)
(* datetime.fromisoformat, for the grammar every supported interpreter     *)
(* accepts: YYYY-MM-DD[*HH[:MM[:SS]][(+|-)HH:MM]]                          *)
(***************************************************************************)
IsLeap(y) == y % 4 = 0 /\ (y % 100 # 0 \/ y % 400 = 0)

DaysInMonth(y, m) ==
  IF m = 2 THEN (IF IsLeap(y) THEN 29 ELSE 28)
  ELSE IF m \in {4, 6, 9, 11} THEN 30 ELSE 31

\* datetime.date's range check
ValidDate(y, m, d) == y >= 1 /\ m >= 1 /\ m <= 12 /\ d >= 1 /\ d <= DaysInMonth(y, m)

\* the text is YYYY-MM-DD with digits in the right places
IsDateShape(s) ==
  /\ Len(s) = 10
  /\ s[5] = "-" /\ s[8] = "-"
  /\ AllDigits(SubSeq(s, 1, 4)) /\ AllDigits(SubSeq(s, 6, 7)) /\ AllDigits(SubSeq(s, 9, 10))

\* a well-formed calendar date 'YYYY-MM-DD'
WellFormedDate(s) ==
  /\ IsDateShape(s)
  /\ ValidDate(ToInt(SubSeq(s, 1, 4)), ToInt(SubSeq(s, 6, 7)), ToInt(SubSeq(s, 9, 10)))

\* HH, HH:MM or HH:MM:SS within range
IsTimeText(t) ==
  /\ Len(t) \in {2, 5, 8}
  /\ AllDigits(SubSeq(t, 1, 2)) /\ ToInt(SubSeq(t, 1, 2)) < 24
  /\ Len(t) >= 5 => (t[3] = ":" /\ AllDigits(SubSeq(t, 4, 5)) /\ ToInt(SubSeq(t, 4, 5)) < 60)
  /\ Len(t) >= 8 => (t[6] = ":" /\ AllDigits(SubSeq(t, 7, 8)) /\ ToInt(SubSeq(t, 7, 8)) < 60)

\* HH:MM of a UTC offset
IsOffsetText(t) ==
  /\ Len(t) = 5 /\ t[3] = ":"
  /\ AllDigits(SubSeq(t, 1, 2)) /\ ToInt(SubSeq(t, 1, 2)) < 24
  /\ AllDigits(SubSeq(t, 4, 5)) /\ ToInt(SubSeq(t, 4, 5)) < 60

\* position of the sign that starts the UTC offset in the time text, 0 when there is none
SignPos(t) ==
  IF \E i \in 1..Len(t) : t[i] \in {"+", "-"}
  THEN CHOOSE i \in 1..Len(t) : t[i] \in {"+", "-"} /\ \A j \in 1..(i - 1) : t[j] \notin {"+", "-"}
  ELSE 0

TimePart(t) == IF SignPos(t) = 0 THEN t ELSE SubSeq(t, 1, SignPos(t) - 1)

OffsetPart(t) == SubSeq(t, SignPos(t) + 1, Len(t))

\* the text after the date and the one-character separator
TimeText(s) == SubSeq(s, 12, Len(s))

\* fromisoformat accepts s (otherwise it raises ValueError)
IsoParses(s) ==
  /\ Len(s) >= 10
  /\ WellFormedDate(SubSeq(s, 1, 10))
  /\ Len(s) >= 12 =>
       /\ IsTimeText(TimePart(TimeText(s)))
       /\ SignPos(TimeText(s)) # 0 => IsOffsetText(OffsetPart(TimeText(s)))

\* dt.tzinfo is set
HasOffset(s) == Len(s) >= 12 /\ SignPos(TimeText(s)) # 0

\* minutes east of UTC
OffsetMinutes(s) ==
  LET o == OffsetPart(TimeText(s))
      m == 60 * ToInt(SubSeq(o, 1, 2)) + ToInt(SubSeq(o, 4, 5))
  IN  IF TimeText(s)[SignPos(TimeText(s))] = "-" THEN 0 - m ELSE m

\* minutes since local midnight
MinuteOfDay(s) ==
  LET t == TimePart(TimeText(s))
  IN  IF Len(s) < 12 THEN 0
      ELSE 60 * ToInt(SubSeq(t, 1, 2)) + (IF Len(t) >= 5 THEN ToInt(SubSeq(t, 4, 5)) ELSE 0)

\* a calendar date as <<y, m, d>>
PrevDay(dt) ==
  IF dt[3] > 1 THEN <<dt[1], dt[2], dt[3] - 1>>
  ELSE IF dt[2] > 1 THEN <<dt[1], dt[2] - 1, DaysInMonth(dt[1], dt[2] - 1)>>
  ELSE <<dt[1] - 1, 12, 31>>

NextDay(dt) ==
  IF dt[3] < DaysInMonth(dt[1], dt[2]) THEN <<dt[1], dt[2], dt[3] + 1>>
  ELSE IF dt[2] < 12 THEN <<dt[1], dt[2] + 1, 1>>
  ELSE <<dt[1] + 1, 1, 1>>

LocalDate(s) == <<ToInt(SubSeq(s, 1, 4)), ToInt(SubSeq(s, 6, 7)), ToInt(SubSeq(s, 9, 10))>>

\* the date part as written, whatever the offset
UtcDateNaive(s) == LocalDate(s)

\* dt.astimezone(timezone.utc).date() when an offset is given, else dt.date()
UtcDate(s) ==
  IF ~HasOffset(s) THEN LocalDate(s)
  ELSE IF MinuteOfDay(s) - OffsetMinutes(s) < 0 THEN PrevDay(LocalDate(s))
  ELSE IF MinuteOfDay(s) - OffsetMinutes(s) >= 1440 THEN NextDay(LocalDate(s))
  ELSE LocalDate(s)

\* astimezone raises OverflowError when the UTC date leaves years 1..9999
UtcOverflows(s) == UtcDate(s)[1] < 1 \/ UtcDate(s)[1] > 9999

\* date.isoformat()
DateIsoformat(dt) == Pad(dt[1], 4) \o <<"-">> \o Pad(dt[2], 2) \o <<"-">> \o Pad(dt[3], 2)

(***************************************************************************)
(* iso_to_date_str and pick_sold_date                                      *)
(***************************************************************************)
iso_to_date_str(iso_s) ==
  IF ~Truthy(iso_s) \/ ~IsStr(iso_s) THEN None
  ELSE LET s == Strip(iso_s)
           z == ReplaceZ(s)
       IN  IF IsoParses(z) /\ ~UtcOverflows(z)
           THEN DateIsoformat(UtcDate(z))
           ELSE SplitFirst(s, <<"T">>)

\* variant: last_updated first, extended_end_time last
pick_sold_date_reversed(lot) ==
  LET t == PyOr(Get(lot, "last_updated"),
                PyOr(Get(OrEmptyDict(Get(lot, "auction")), "effective_end_time"),
                     Get(lot, "extended_end_time")))
  IN  IF Truthy(t) THEN iso_to_date_str(t) ELSE None

pick_sold_date(lot) ==
  LET t == PyOr(Get(lot, "extended_end_time"),
                PyOr(Get(OrEmptyDict(Get(lot, "auction")), "effective_end_time"),
                     Get(lot, "last_updated")))
  IN  IF Truthy(t) THEN iso_to_date_str(t) ELSE None

(***************************************************************************)
(* Program constants                                                       *)
(***************************************************************************)
CONCURRENCY == 10

\* main: the configured sources
bases == <<
  <<"h", "t", "t", "p", "s", ":", "/", "/", "a", "u", "c", "t", "i", "o", "n", "s", ".", "b", "a", "s", "s", "a", "n", "i", "s", ".", "c", "o", ".", "z", "a">>,
  <<"h", "t", "t", "p", "s", ":", "/", "/", "a", "u", "c", "t", "i", "o", "n", ".", "v", "i", "n", "t", "a", "g", "e", "a", "u", "c", "t", "i", "o", "n", "s", ".", "c", "o", ".", "z", "a">>,
  <<"h", "t", "t", "p", "s", ":", "/", "/", "b", "i", "d", ".", "e", "w", "a", "a", "n", ".", "c", "o", ".", "z", "a">> >>

Sources == 1..Len(bases)

\* main: domain = base.split("//")[1].split("/")[0]
domain(base) == Split(Split(base, <<"/", "/">>)[2], <<"/">>)[1]

\* main: outfile = f"{domain}_lots.json"
outfile(base) == domain(base) \o <<"_", "l", "o", "t", "s", ".", "j", "s", "o", "n">>

\* the dataset file name of each source
OutFileNames == [s \in Sources |-> outfile(bases[s])]

\* each source has a dataset file of its own
DistinctOutFiles == \A s1, s2 \in Sources : OutFileNames[s1] = OutFileNames[s2] => s1 = s2

(***************************************************************************)
(* The dataset file: absent, unparseable, or a JSON array of objects.      *)
(* JSON null is <<"null">>, a JSON number <<"num", n>>, a JSON string the  *)
(* tuple of its characters.                                                *)
(***************************************************************************)
JNull == <<"null">>

JNum(n) == <<"num", n>>

AbsentFile == [state |-> "absent", doc |-> <<>>]

CorruptFile == [state |-> "corrupt", doc |-> <<>>]

JsonFile(doc) == [state |-> "json", doc |-> doc]

\* json.dump of one value / json.load of one value
DumpValue(v) == IF IsNone(v) THEN JNull ELSE IF IsInt(v) THEN JNum(v[2]) ELSE v

LoadValue(j) == IF j = JNull THEN None ELSE IF Len(j) = 2 /\ j[1] = "num" THEN PyInt(j[2]) ELSE j

\* json.dump(existing, f): the document written for a list of records
json_dump(rows) == [i \in 1..Len(rows) |-> [k \in DOMAIN rows[i] |-> DumpValue(rows[i][k])]]

\* json.load(f): the list of records of a document
json_load(doc) == [i \in 1..Len(doc) |-> [k \in DOMAIN doc[i] |-> LoadValue(doc[i][k])]]

(***************************************************************************)
(* scrape_and_merge: filter, payload, upsert                               *)
(***************************************************************************)
\* variant: the filter asks for the key, not for its value
IsSoldPresent(lot) == "sold_price" \in DOMAIN lot

\* new_lots = [lot for lot in new_lots if lot.get("sold_price")]
IsSold(lot) == Truthy(Get(lot, "sold_price"))

PayloadKeys == {"row_id", "title", "status", "sold_price", "url", "sold_date", "auction_title"}

LotsViewPath == <<"/", "l", "o", "t", "s", "/", "v", "i", "e", "w", "/">>

\* the candidate record of a listing
payload(base, lot) ==
  [k \in PayloadKeys |->
     CASE k = "row_id" -> Get(lot, "row_id")
       [] k = "title" -> Get(lot, "title")
       [] k = "status" -> Get(lot, "status")
       [] k = "sold_price" -> Get(lot, "sold_price")
       [] k = "url" -> base \o LotsViewPath \o PyStr(Get(lot, "row_id"))
       [] k = "sold_date" -> pick_sold_date(lot)
       [] k = "auction_title" -> Get(OrEmptyDict(Get(lot, "auction")), "title")]

\* row.get("sold_date") in (None, "", "null")
SoldDateMissing(row) == Get(row, "sold_date") \in {None, <<>>, <<"n", "u", "l", "l">>}

\* variant: a stored null is filled in like an absent field
OverwritesNull(row, k, v) ==
  k \notin DOMAIN row \/ row[k] = None \/ (k = "sold_date" /\ SoldDateMissing(row) /\ Truthy(v))

\* the condition under which the upsert assigns row[k] = v
Overwrites(row, k, v) ==
  k \notin DOMAIN row \/ (k = "sold_date" /\ SoldDateMissing(row) /\ Truthy(v))

\* the stored row after the upsert loop over payload.items()
Upsert(row, pl) ==
  [k \in DOMAIN row \cup DOMAIN pl |->
     IF k \in DOMAIN pl /\ Overwrites(row, k, pl[k]) THEN pl[k] ELSE row[k]]

\* changed: some field was assigned
Changed(row, pl) == \E k \in DOMAIN pl : Overwrites(row, k, pl[k])

\* variant: the lookup sees the first record only
HasIdFirstOnly(existing, rid) == existing # <<>> /\ Get(existing[1], "row_id") = rid

\* rid in existing_by_id
HasId(existing, rid) == \E i \in 1..Len(existing) : Get(existing[i], "row_id") = rid

\* existing_by_id[rid]: the position of the row the index holds for rid (the last one with that key)
IndexOfId(existing, rid) ==
  CHOOSE i \in 1..Len(existing) :
    /\ Get(existing[i], "row_id") = rid
    /\ \A j \in (i + 1)..Len(existing) : Get(existing[j], "row_id") # rid

\* variant: a new record is not counted
MergeLotNoCount(base, m, lot) ==
  LET rid == Get(lot, "row_id")
      pl == payload(base, lot)
  IN  IF ~Truthy(rid) THEN m
      ELSE IF HasId(m.existing, rid)
      THEN LET at == IndexOfId(m.existing, rid)
           IN  [existing |-> [m.existing EXCEPT ![at] = Upsert(m.existing[at], pl)],
                added |-> m.added,
                updated |-> IF Changed(m.existing[at], pl) THEN m.updated + 1 ELSE m.updated]
      ELSE [existing |-> Append(m.existing, pl), added |-> m.added, updated |-> m.updated]

\* variant: a new record goes to the front
MergeLotPrepend(base, m, lot) ==
  LET rid == Get(lot, "row_id")
      pl == payload(base, lot)
  IN  IF ~Truthy(rid) THEN m
      ELSE IF HasId(m.existing, rid)
      THEN LET at == IndexOfId(m.existing, rid)
           IN  [existing |-> [m.existing EXCEPT ![at] = Upsert(m.existing[at], pl)],
                added |-> m.added,
                updated |-> IF Changed(m.existing[at], pl) THEN m.updated + 1 ELSE m.updated]
      ELSE [existing |-> <<pl>> \o m.existing, added |-> m.added + 1, updated |-> m.updated]

\* variant: a listing without row_id is merged like any other
MergeLotNoSkip(base, m, lot) ==
  LET rid == Get(lot, "row_id")
      pl == payload(base, lot)
  IN  IF HasId(m.existing, rid)
      THEN LET at == IndexOfId(m.existing, rid)
           IN  [existing |-> [m.existing EXCEPT ![at] = Upsert(m.existing[at], pl)],
                added |-> m.added,
                updated |-> IF Changed(m.existing[at], pl) THEN m.updated + 1 ELSE m.updated]
      ELSE [existing |-> Append(m.existing, pl), added |-> m.added + 1, updated |-> m.updated]

\* one iteration of "for lot in new_lots" on m = [existing, added, updated]
MergeLot(base, m, lot) ==
  LET rid == Get(lot, "row_id")
      pl == payload(base, lot)
  IN  IF ~Truthy(rid) THEN m
      ELSE IF HasId(m.existing, rid)
      THEN LET at == IndexOfId(m.existing, rid)
           IN  [existing |-> [m.existing EXCEPT ![at] = Upsert(m.existing[at], pl)],
                added |-> m.added,
                updated |-> IF Changed(m.existing[at], pl) THEN m.updated + 1 ELSE m.updated]
      ELSE [existing |-> Append(m.existing, pl), added |-> m.added + 1, updated |-> m.updated]

\* existing = [] unless the file exists, then json.load
LoadExisting(f) == IF f.state = "absent" THEN <<>> ELSE json_load(f.doc)

\* json.load raises on a present file that is no JSON
LoadRaises(f) == f.state = "corrupt"

(***************************************************************************)
(* The inputs explored: what the sources serve and what is on disk         *)
(***************************************************************************)
\* the listings a source may serve
lotA ==
  [row_id |-> <<"7">>, title |-> <<"a">>, status |-> <<"s", "o", "l", "d">>, sold_price |-> PyInt(1500),
   extended_end_time |-> <<"2", "0", "2", "4", "-", "0", "3", "-", "0", "1", "T", "1", "4", ":", "3", "0", ":", "0", "0", "Z">>,
   auction |-> PyDict([title |-> <<"x">>, effective_end_time |-> <<"2", "0", "2", "4", "-", "0", "1", "-", "0", "1", "T", "1", "0", ":", "0", "0", ":", "0", "0", "Z">>])]

lotB == [row_id |-> <<"7">>, title |-> <<"b">>, sold_price |-> PyInt(1500), extended_end_time |-> None]

lotC ==
  [row_id |-> <<"7">>, title |-> <<"a">>, sold_price |-> PyInt(900), extended_end_time |-> <<>>,
   auction |-> PyDict([effective_end_time |-> <<"2", "0", "2", "4", "-", "0", "3", "-", "0", "1", "T", "0", "1", ":", "3", "0", ":", "0", "0", "+", "0", "2", ":", "0", "0">>])]

lotD == [row_id |-> PyInt(8), title |-> <<"d">>, sold_price |-> <<"9", "5", "0">>, last_updated |-> <<"n", "u", "l", "l">>]

lotE == [row_id |-> PyInt(8), title |-> <<"e">>, sold_price |-> None, last_updated |-> <<"2", "0", "2", "4", "-", "0", "3", "-", "0", "2">>]

lotF == [title |-> <<"f">>, sold_price |-> PyInt(1500), last_updated |-> <<"2", "0", "2", "4", "-", "0", "3", "-", "0", "2">>]

lotG == [row_id |-> <<"7">>, title |-> <<"a">>, sold_price |-> PyInt(1500), extended_end_time |-> <<"T", "1", "2", ":", "0", "0">>]

Catalogue == <<lotA, lotB, lotC, lotD, lotE, lotF, lotG>>

\* the pages a source may have listings on: one inside the first window, one in the second
Pages == {3, 11}

\* a dataset written by another tool: fields missing, nulls
LegacyDoc ==
  << [row_id |-> <<"7">>, title |-> JNull],
     [row_id |-> JNum(5), title |-> <<"o", "l", "d">>, sold_date |-> JNull] >>

\* the size of a scenario: the listings the sources serve, the dataset files
\* present at the start and the transport errors, in total
MaxItems == 2

\* the number of times the program is started
MaxRuns == 2

PresetKinds == {"absent", "corrupt", "legacy"}

PresetFile(kind) ==
  IF kind = "absent" THEN AbsentFile ELSE IF kind = "corrupt" THEN CorruptFile ELSE JsonFile(LegacyDoc)

Presets == {pr \in [Sources -> PresetKinds] : Cardinality({s \in Sources : pr[s] # "absent"}) <= MaxItems}

\* a placement <<source, page, listing>>; a plan lists placements in source and page order
Placements == Sources \X Pages \X (1..Len(Catalogue))

SlotRank(pl) == 1000 * pl[1] + pl[2]

PlansOfLen(n) ==
  {plan \in [1..n -> Placements] : \A j \in 1..(n - 1) : SlotRank(plan[j]) <= SlotRank(plan[j + 1])}

\* the listings (positions in Catalogue) of a plan on page p of source s, in plan order
RECURSIVE PlanPage(_, _, _)
PlanPage(plan, s, p) ==
  IF plan = <<>> THEN <<>>
  ELSE (IF Head(plan)[1] = s /\ Head(plan)[2] = p THEN <<Head(plan)[3]>> ELSE <<>>)
       \o PlanPage(Tail(plan), s, p)

RemoteOf(plan) == [s \in Sources |-> [p \in Pages |-> PlanPage(plan, s, p)]]

(***************************************************************************)
(* State                                                                   *)
(***************************************************************************)
VARIABLES
  remote,    \* remote[s][p]: the listings source s serves on page p, as positions in Catalogue
  file,      \* file[s]: the dataset file of source s, named OutFileNames[s]
  pc,        \* where the process is: "main", "fetching", "loading", "merging", "exited", "crashed"
  runs,      \* how many times the program was started
  i,         \* main: position of "for base in bases"
  page,      \* fetch_all_lots: first page of the current window
  all_lots,  \* fetch_all_lots: the accumulator (listings as positions in Catalogue)
  new_lots,  \* scrape_and_merge: the sold listings the for loop has still to merge
  existing,  \* scrape_and_merge: the records
  added,     \* scrape_and_merge: the counts of the summary line
  updated,
  total,
  before,    \* history: the dataset file of the current source when its run started
  file0,     \* history: file0[s] = what the dataset file of s was at the start (PresetKinds)
  written,   \* history: the sources whose dataset file a completed run has written
  rerun,     \* history: the current source's run follows a completed run of that source
  spare,     \* what is left of MaxItems for transport errors
  iso_s,     \* the argument of a call of iso_to_date_str
  iso_ret,   \* what the call returned
  tasks,     \* fetch_all_lots, request by request: the tasks handed to gather, in list order
  requested, \* history: the pages requested from the current source, in order of request
  overtook,  \* history: a page with listings returned while a lower one with listings was awaited
  pick_lot,  \* the argument of a call of pick_sold_date
  pick_ret   \* what the call returned

world == <<remote, file0>>

gather == <<tasks, requested, overtook>>

crawl == <<page, all_lots>>

merge == <<new_lots, existing, added, updated, total>>

hist == <<before, written, rerun>>

call == <<iso_s, iso_ret, pick_lot, pick_ret>>

vars == <<remote, file, pc, runs, i, page, all_lots, new_lots, existing, added, updated, total,
          before, file0, written, rerun, spare, iso_s, iso_ret, tasks, requested, overtook,
          pick_lot, pick_ret>>

\* the result_page of page p of source s (pages beyond the data are empty)
result_page(s, p) == IF p \in DOMAIN remote[s] THEN remote[s][p] ELSE <<>>

\* no call of iso_to_date_str or pick_sold_date on its own
NoCall == <<"no call">>

Init ==
  /\ DistinctOutFiles
  /\ \E pr \in Presets :
       \E n \in 0..(MaxItems - Cardinality({s \in Sources : pr[s] # "absent"})) :
         \E plan \in PlansOfLen(n) :
           /\ remote = RemoteOf(plan)
           /\ spare = MaxItems - Cardinality({s \in Sources : pr[s] # "absent"}) - n
           /\ file = [s \in Sources |-> PresetFile(pr[s])]
           /\ file0 = pr
  /\ pc = "main"
  /\ runs = 1
  /\ i = 1
  /\ page = 1
  /\ all_lots = <<>>
  /\ new_lots = <<>>
  /\ existing = <<>>
  /\ added = 0
  /\ updated = 0
  /\ total = 0
  /\ before = AbsentFile
  /\ written = {}
  /\ rerun = FALSE
  /\ iso_s = NoCall
  /\ iso_ret = NoCall
  /\ tasks = <<>>
  /\ requested = <<>>
  /\ overtook = FALSE
  /\ pick_lot = NoCall
  /\ pick_ret = NoCall

(***************************************************************************)
(* Operations                                                              *)
(***************************************************************************)
\* variant: a window of one page more
WindowWide(pg) == pg..(pg + CONCURRENCY)

\* fetch_all_lots: the pages of the current window, range(page, page + CONCURRENCY)
Window(pg) == pg..(pg + CONCURRENCY - 1)

\* variant: only the first page of the window decides
got_any_first(s, pg) == result_page(s, pg) # <<>>

\* fetch_all_lots: got_any after the loop over the results of the window at pg
got_any(s, pg) == \E p \in Window(pg) : result_page(s, p) # <<>>

\* fetch_all_lots: what the loop over results appends: the results of pages pg..last in page order
RECURSIVE Extended(_, _, _)
Extended(s, pg, last) ==
  IF pg > last THEN <<>> ELSE result_page(s, pg) \o Extended(s, pg + 1, last)

\* the listing at position c of the catalogue is sold
IsSoldAt(c) == IsSold(Catalogue[c])

\* main enters scrape_and_merge for the next base; fetch_all_lots starts at page 1
StartSource ==
  /\ pc = "main"
  /\ i <= Len(bases)
  /\ pc' = "fetching"
  /\ page' = 1
  /\ all_lots' = <<>>
  /\ added' = 0
  /\ updated' = 0
  /\ total' = 0
  /\ before' = file[i]
  /\ rerun' = (i \in written)
  /\ UNCHANGED <<world, file, runs, i, new_lots, existing, written, spare, call, gather>>

\* one iteration of the while loop: the ten fetches of the window all return
FetchWindow ==
  /\ pc = "fetching"
  /\ all_lots' = all_lots \o Extended(i, page, page + CONCURRENCY - 1)
  /\ IF got_any(i, page)
     THEN page' = page + CONCURRENCY /\ pc' = "fetching"
     ELSE page' = page /\ pc' = "loading"
  /\ UNCHANGED <<world, file, runs, i, merge, hist, spare, call, gather>>

\* a fetch of the window raises (raise_for_status, connection error, timeout):
\* gather re-raises and nothing catches it up to asyncio.run
FetchFails ==
  /\ pc = "fetching"
  /\ spare > 0
  /\ spare' = spare - 1
  /\ pc' = "crashed"
  /\ UNCHANGED <<world, file, runs, i, crawl, merge, hist, call, gather>>

\* scrape_and_merge after the crawl: json.load raises on an unparseable file
LoadFails ==
  /\ pc = "loading"
  /\ LoadRaises(file[i])
  /\ pc' = "crashed"
  /\ UNCHANGED <<world, file, runs, i, crawl, merge, hist, spare, call, gather>>

\* scrape_and_merge after the crawl: keep the sold listings, load the dataset, zero the counts
LoadExistingFile ==
  /\ pc = "loading"
  /\ ~LoadRaises(file[i])
  /\ new_lots' = SelectSeq(all_lots, IsSoldAt)
  /\ existing' = LoadExisting(file[i])
  /\ added' = 0
  /\ updated' = 0
  /\ pc' = "merging"
  /\ UNCHANGED <<world, file, runs, i, crawl, total, hist, spare, call, gather>>

\* variant: the dataset file is saved after every listing
MergeNextSaving ==
  /\ pc = "merging"
  /\ new_lots # <<>>
  /\ LET m == MergeLot(bases[i], [existing |-> existing, added |-> added, updated |-> updated],
                       Catalogue[Head(new_lots)])
     IN  /\ existing' = m.existing
         /\ added' = m.added
         /\ updated' = m.updated
         /\ file' = [file EXCEPT ![i] = JsonFile(json_dump(m.existing))]
  /\ new_lots' = Tail(new_lots)
  /\ UNCHANGED <<world, pc, runs, i, crawl, total, hist, spare, call, gather>>

\* one iteration of "for lot in new_lots": skip, upsert or append
MergeNext ==
  /\ pc = "merging"
  /\ new_lots # <<>>
  /\ LET m == MergeLot(bases[i], [existing |-> existing, added |-> added, updated |-> updated],
                       Catalogue[Head(new_lots)])
     IN  /\ existing' = m.existing
         /\ added' = m.added
         /\ updated' = m.updated
  /\ new_lots' = Tail(new_lots)
  /\ UNCHANGED <<world, file, pc, runs, i, crawl, total, hist, spare, call, gather>>

\* the loop is over: json.dump to the dataset file, the summary line; main goes on
WriteFile ==
  /\ pc = "merging"
  /\ new_lots = <<>>
  /\ file' = [file EXCEPT ![i] = JsonFile(json_dump(existing))]
  /\ total' = Len(existing)
  /\ existing' = <<>>
  /\ written' = written \cup {i}
  /\ i' = i + 1
  /\ pc' = "main"
  /\ UNCHANGED <<world, runs, crawl, new_lots, added, updated, before, rerun, spare, call, gather>>

\* the for loop of main is over
MainReturns ==
  /\ pc = "main"
  /\ i > Len(bases)
  /\ pc' = "exited"
  /\ UNCHANGED <<world, file, runs, i, crawl, merge, hist, spare, call, gather>>

\* the program is started again
Restart ==
  /\ pc \in {"exited", "crashed"}
  /\ runs < MaxRuns
  /\ runs' = runs + 1
  /\ pc' = "main"
  /\ i' = 1
  /\ page' = 1
  /\ all_lots' = <<>>
  /\ new_lots' = <<>>
  /\ existing' = <<>>
  /\ added' = 0
  /\ updated' = 0
  /\ total' = 0
  /\ before' = AbsentFile
  /\ rerun' = FALSE
  /\ UNCHANGED <<world, file, written, spare, call, gather>>

Next ==
  \/ StartSource
  \/ FetchWindow
  \/ FetchFails
  \/ LoadFails
  \/ LoadExistingFile
  \/ MergeNext
  \/ WriteFile
  \/ MainReturns
  \/ Restart

Spec == Init /\ [][Next]_vars

(***************************************************************************)
(* iso_to_date_str on its own: one call on each of a set of arguments      *)
(***************************************************************************)
DateTexts ==
  { <<"2", "0", "2", "4", "-", "0", "3", "-", "0", "1">>,
    <<"2", "0", "2", "4", "-", "0", "2", "-", "2", "9">>,
    <<"2", "0", "2", "3", "-", "0", "2", "-", "2", "9">>,
    <<"2", "0", "2", "4", "-", "0", "1", "-", "0", "1">>,
    <<"2", "0", "2", "4", "-", "1", "2", "-", "3", "1">>,
    <<"0", "0", "0", "1", "-", "0", "1", "-", "0", "1">>,
    <<"9", "9", "9", "9", "-", "1", "2", "-", "3", "1">>,
    <<"2", "0", "2", "4", "-", "1", "3", "-", "0", "1">>,
    <<"2", "0", "2", "4", "-", "3", "-", "1">> }

TimeTexts ==
  { <<>>,
    <<"T", "0", "0", ":", "0", "0", ":", "0", "0">>,
    <<"T", "0", "1", ":", "3", "0", ":", "0", "0">>,
    <<"T", "1", "4", ":", "3", "0", ":", "0", "0">>,
    <<"T", "2", "3", ":", "5", "9">>,
    <<"T", "2", "4", ":", "0", "0", ":", "0", "0">>,
    <<" ", "2", "2", ":", "1", "5", ":", "0", "0">> }

OffsetTexts ==
  { <<>>,
    <<"Z">>,
    <<"+", "0", "2", ":", "0", "0">>,
    <<"-", "0", "2", ":", "0", "0">>,
    <<"+", "0", "0", ":", "0", "0">>,
    <<"-", "0", "5", ":", "3", "0">>,
    <<"+", "2", "5", ":", "0", "0">> }

OtherTexts ==
  { <<>>,
    <<" ">>,
    <<"n", "u", "l", "l">>,
    <<"n", "o", "t", "-", "a", "-", "d", "a", "t", "e">>,
    <<"T", "1", "2", ":", "0", "0">>,
    <<"T", "u", "e", "s", "d", "a", "y">>,
    <<"2", "0", "2", "4", "-", "0", "3", "-", "0", "1", "T">>,
    <<" ", "2", "0", "2", "4", "-", "0", "3", "-", "0", "1", "T", "1", "4", ":", "3", "0", ":", "0", "0", "Z", " ">>,
    <<"1", "2", "/", "0", "3", "/", "2", "0", "2", "4">> }

\* the arguments: timestamps put together from the parts, other strings, None and a number
IsoArguments ==
  {d \o tm \o o : d \in DateTexts, tm \in TimeTexts, o \in OffsetTexts}
    \cup OtherTexts \cup {None, PyInt(1709303400)}

InitDate ==
  /\ iso_s \in IsoArguments
  /\ iso_ret = NoCall
  /\ pc = "call"
  /\ remote = [s \in Sources |-> [p \in Pages |-> <<>>]]
  /\ file = [s \in Sources |-> AbsentFile]
  /\ file0 = [s \in Sources |-> "absent"]
  /\ spare = 0
  /\ runs = 1
  /\ i = 1
  /\ page = 1
  /\ all_lots = <<>>
  /\ new_lots = <<>>
  /\ existing = <<>>
  /\ added = 0
  /\ updated = 0
  /\ total = 0
  /\ before = AbsentFile
  /\ written = {}
  /\ rerun = FALSE
  /\ tasks = <<>>
  /\ requested = <<>>
  /\ overtook = FALSE
  /\ pick_lot = NoCall
  /\ pick_ret = NoCall

\* the call returns
CallIso ==
  /\ pc = "call"
  /\ iso_ret = NoCall
  /\ iso_ret' = iso_to_date_str(iso_s)
  /\ UNCHANGED <<world, file, pc, runs, i, crawl, merge, hist, spare, iso_s, gather, pick_lot, pick_ret>>

NextDate == CallIso

SpecDate == InitDate /\ [][NextDate]_vars

(***************************************************************************)
(* Properties                                                              *)
(***************************************************************************)
\* a run of source i - 1 has just written its dataset file
JustWritten == pc = "main" /\ i > 1

\* the listing at position c has a non-empty sold_price / row_id
PriceGiven(c) ==
  "sold_price" \in DOMAIN Catalogue[c] /\ Catalogue[c]["sold_price"] \notin {None, <<>>, PyInt(0)}

RowIdGiven(c) ==
  "row_id" \in DOMAIN Catalogue[c] /\ Catalogue[c]["row_id"] \notin {None, <<>>, PyInt(0)}

\* the row_id of listing c as the dataset file shows it
RowIdOf(c) == DumpValue(Catalogue[c]["row_id"])

\* the row_ids of a document, in order
IdSeq(doc) == [j \in 1..Len(doc) |-> Get(doc[j], "row_id")]

IdSet(doc) == {Get(doc[j], "row_id") : j \in 1..Len(doc)}

\* the listings source s serves, all pages
RECURSIVE ServedFrom(_, _)
ServedFrom(s, ps) ==
  IF ps = {} THEN <<>>
  ELSE LET p == CHOOSE q \in ps : \A r \in ps : q <= r
       IN  remote[s][p] \o ServedFrom(s, ps \ {p})

Served(s) == ServedFrom(s, Pages)

\* C1: a run of a source that follows a completed run of that source (the
\* source serving the same listings) reports added = 0 and updated = 0 and
\* writes the dataset the earlier run wrote.
C1_Idempotent ==
  (JustWritten /\ rerun) => (added = 0 /\ updated = 0 /\ file[i - 1] = before)

\* C2: a dataset that started absent never holds two records with the same row_id.
C2_UniqueRowIds ==
  \A s \in Sources :
    file0[s] = "absent" =>
      \A j, k \in 1..Len(file[s].doc) :
        j # k => Get(file[s].doc[j], "row_id") # Get(file[s].doc[k], "row_id")

\* a run from an absent file crawled the same row_id twice and wrote one record
C2_Witness ==
  /\ JustWritten
  /\ file0[i - 1] = "absent"
  /\ Len(all_lots) >= 2
  /\ PriceGiven(all_lots[1]) /\ PriceGiven(all_lots[2])
  /\ RowIdGiven(all_lots[1]) /\ RowIdGiven(all_lots[2])
  /\ RowIdOf(all_lots[1]) = RowIdOf(all_lots[2])
  /\ Len(file[i - 1].doc) = 1

\* the stored sold_date is absent, null, empty or "null"
StoredDateMissing(row) ==
  "sold_date" \notin DOMAIN row \/ row["sold_date"] \in {None, <<>>, <<"n", "u", "l", "l">>}

\* the merge step at hand meets a stored record
MergesIntoStored ==
  /\ pc = "merging"
  /\ new_lots # <<>>
  /\ RowIdGiven(Head(new_lots))
  /\ \E j \in 1..Len(existing) : Get(existing[j], "row_id") = Catalogue[Head(new_lots)]["row_id"]

\* the position of that record
StoredAt ==
  CHOOSE j \in 1..Len(existing) : Get(existing[j], "row_id") = Catalogue[Head(new_lots)]["row_id"]

\* C3: merging a listing into its stored record sets a missing sold_date
\* (absent, null, empty, "null") to the computed one when that is not null,
\* and leaves a sold_date that is set as it is.
C3_SoldDateBackfill ==
  [][MergesIntoStored =>
       LET row == existing[StoredAt]
           v == pick_sold_date(Catalogue[Head(new_lots)])
       IN  /\ (StoredDateMissing(row) /\ v # None) => Get(existing'[StoredAt], "sold_date") = v
           /\ ~StoredDateMissing(row) => Get(existing'[StoredAt], "sold_date") = row["sold_date"]]_vars

\* every page of the window at pg returned no listing
WindowAllEmpty(s, pg) == \A p \in pg..(pg + CONCURRENCY - 1) : result_page(s, p) = <<>>

\* C4: after a window the crawl is done exactly if every page of the window
\* was empty; otherwise it goes on with the next window.
C4_WindowedTermination ==
  [][(pc = "fetching" /\ pc' # "crashed") =>
       /\ WindowAllEmpty(i, page) => pc' = "loading"
       /\ ~WindowAllEmpty(i, page) => (pc' = "fetching" /\ page' = page + CONCURRENCY)]_vars

\* the crawl went on after a window whose first page was empty
C4_Witness == pc = "fetching" /\ page = CONCURRENCY + 1 /\ result_page(i, 1) = <<>>

\* C5: from the start of a source's run up to the end of its merge, and after
\* an abort, the dataset file is what it was when the run started.
C5_NoPartialWrite ==
  pc \in {"fetching", "loading", "merging", "crashed"} => file[i] = before

\* a fetch failed in the second window, with a dataset on disk
C5_Witness ==
  /\ pc = "crashed"
  /\ page > 1
  /\ all_lots # <<>>
  /\ before.state = "json"
  /\ before.doc # <<>>
  /\ file[i] = before

\* the sources whose crawl was started since the program started
Attempted == {s \in Sources : s < i \/ (s = i /\ pc # "main")}

\* C6: when the process has ended, every configured source was attempted,
\* also after a fatal error of an earlier one.
C6_LaterSourcesAttempted == pc \in {"exited", "crashed"} => Attempted = Sources

\* C7: iso_to_date_str returns a well-formed YYYY-MM-DD or null.
C7_DateOrNull == iso_ret # NoCall => (iso_ret = None \/ WellFormedDate(iso_ret))

\* the sold listings of a crawl, in crawl order
RECURSIVE Kept(_)
Kept(cs) ==
  IF cs = <<>> THEN <<>>
  ELSE (IF PriceGiven(Head(cs)) THEN <<Head(cs)>> ELSE <<>>) \o Kept(Tail(cs))

\* C8: the merge receives the listings with a non-empty sold_price in crawl
\* order; a record of the written dataset was there before or has the row_id
\* of such a listing; a crawl without such a listing changes nothing and
\* counts nothing; each such listing with a row_id has its record.
C8_SoldFilter ==
  [][/\ (pc = "loading" /\ pc' = "merging") => new_lots' = Kept(all_lots)
     /\ (pc = "merging" /\ pc' = "main") =>
          /\ \A id \in IdSet(file'[i].doc) :
               \/ id \in IdSet(before.doc)
               \/ \E j \in 1..Len(all_lots) :
                    PriceGiven(all_lots[j]) /\ RowIdGiven(all_lots[j]) /\ RowIdOf(all_lots[j]) = id
          /\ (\A j \in 1..Len(all_lots) : ~PriceGiven(all_lots[j])) =>
               (added = 0 /\ updated = 0 /\ file'[i].doc = before.doc)
          /\ \A j \in 1..Len(all_lots) :
               (PriceGiven(all_lots[j]) /\ RowIdGiven(all_lots[j])) =>
                 RowIdOf(all_lots[j]) \in IdSet(file'[i].doc)]_vars

\* a crawl of a sold and an unsold listing wrote one record
C8_Witness ==
  /\ JustWritten
  /\ before.state = "absent"
  /\ \E j \in 1..Len(all_lots) : ~PriceGiven(all_lots[j])
  /\ \E j \in 1..Len(all_lots) : PriceGiven(all_lots[j]) /\ RowIdGiven(all_lots[j])
  /\ Len(file[i - 1].doc) = 1

\* the sold listings have row_ids, pairwise distinct
DistinctSold(cs) ==
  /\ \A j \in 1..Len(cs) : PriceGiven(cs[j]) => RowIdGiven(cs[j])
  /\ \A j, k \in 1..Len(cs) :
       (j # k /\ PriceGiven(cs[j]) /\ PriceGiven(cs[k])) => RowIdOf(cs[j]) # RowIdOf(cs[k])

\* C9: with no dataset file, a source whose listings all lie before the first
\* empty window, k of them sold with distinct row_ids, gives a dataset of k
\* records, added = k, updated = 0.
C9_FirstRun ==
  (/\ JustWritten
   /\ before.state = "absent"
   /\ all_lots = Served(i - 1)
   /\ DistinctSold(all_lots)) =>
    /\ Len(file[i - 1].doc) = Len(Kept(all_lots))
    /\ added = Len(Kept(all_lots))
    /\ updated = 0
    /\ total = Len(Kept(all_lots))

\* a first run on a sold and an unsold listing
C9_Witness ==
  /\ JustWritten
  /\ before.state = "absent"
  /\ all_lots = Served(i - 1)
  /\ DistinctSold(all_lots)
  /\ Len(all_lots) = 2
  /\ added = 1
  /\ updated = 0

\* the row_ids a crawl adds to the row_ids seen, in order of first sighting
RECURSIVE FirstSightings(_, _)
FirstSightings(cs, seen) ==
  IF cs = <<>> THEN <<>>
  ELSE IF PriceGiven(Head(cs)) /\ RowIdGiven(Head(cs)) /\ RowIdOf(Head(cs)) \notin seen
       THEN <<RowIdOf(Head(cs))>> \o FirstSightings(Tail(cs), seen \cup {RowIdOf(Head(cs))})
       ELSE FirstSightings(Tail(cs), seen)

\* C10: the row_ids of the written dataset are those of the dataset before
\* the run, in the same order, followed by the new ones in order of first
\* sighting.
C10_AppendOnly ==
  JustWritten =>
    IdSeq(file[i - 1].doc) = IdSeq(before.doc) \o FirstSightings(all_lots, IdSet(before.doc))

\* a run appended a record to a dataset that had records
C10_Witness ==
  /\ JustWritten
  /\ before.doc # <<>>
  /\ Len(file[i - 1].doc) > Len(before.doc)

(***************************************************************************)
(* C11: the date of the UTC instant                                        *)
(***************************************************************************)
\* days from 0001-01-01 to the calendar date dt = <<y, m, d>>, counting from 1
RECURSIVE DaysBeforeMonth(_, _)
DaysBeforeMonth(y, m) == IF m = 1 THEN 0 ELSE DaysBeforeMonth(y, m - 1) + DaysInMonth(y, m - 1)

DayNumber(dt) ==
  365 * (dt[1] - 1) + ((dt[1] - 1) \div 4) - ((dt[1] - 1) \div 100) + ((dt[1] - 1) \div 400)
    + DaysBeforeMonth(dt[1], dt[2]) + dt[3]

LastDayNumber == DayNumber(<<9999, 12, 31>>)

\* the minutes since midnight a time text (separator, then HH[:MM[:SS]]) stands for
ClockMinutes(tm) ==
  60 * ToInt(SubSeq(tm, 2, 3)) + (IF Len(tm) >= 6 THEN ToInt(SubSeq(tm, 5, 6)) ELSE 0)

\* the minutes east of UTC an offset text (sign, then HH:MM) stands for
EastMinutes(o) ==
  LET m == 60 * ToInt(SubSeq(o, 2, 3)) + ToInt(SubSeq(o, 5, 6))
  IN  IF o[1] = "-" THEN 0 - m ELSE m

\* a time text and an offset text fromisoformat reads
GoodTime(tm) == tm # <<>> /\ IsTimeText(Tail(tm))

GoodOffset(o) == o # <<>> /\ o[1] \in {"+", "-"} /\ IsOffsetText(Tail(o))

\* the day the UTC instant of date d, time tm, offset o falls on
UtcDayNumber(d, tm, o) == DayNumber(LocalDate(d)) + ((ClockMinutes(tm) - EastMinutes(o)) \div 1440)

\* the call on d \o tm \o o has returned
Returned(d, tm, o) == pc = "call" /\ iso_s = d \o tm \o o /\ iso_ret # NoCall

KeepsFields(old, new) ==
  \A k \in DOMAIN old \ {"sold_date"} : k \in DOMAIN new /\ new[k] = old[k]

\* the run of the current source ends: the dataset file is written
Writes == pc = "merging" /\ new_lots = <<>> /\ pc' = "main"

\* C12: merging a listing whose row_id is stored leaves every field of every
\* stored record other than sold_date as it is, whatever its value (null
\* included) and whatever the source reports; the fields the record gains are
\* fields it did not have, with the values of the listing's payload. So the
\* dataset file a run writes has each record of the file the run read, every
\* field but sold_date with the value it had.
C12_StoredFieldsKept ==
  [][/\ MergesIntoStored =>
          LET pl == payload(bases[i], Catalogue[Head(new_lots)])
          IN  /\ Len(existing') = Len(existing)
              /\ \A j \in 1..Len(existing) :
                   /\ KeepsFields(existing[j], existing'[j])
                   /\ \A k \in DOMAIN existing'[j] \ DOMAIN existing[j] :
                        k \in PayloadKeys /\ existing'[j][k] = pl[k]
              /\ PayloadKeys \subseteq DOMAIN existing'[StoredAt]
     /\ (Writes /\ before.state = "json") =>
          /\ Len(file'[i].doc) >= Len(before.doc)
          /\ \A j \in 1..Len(before.doc) : KeepsFields(before.doc[j], file'[i].doc[j])]_vars

\* a run met the stored record "7", whose title is null, with a listing that
\* has a title: the written record has the null title and the fields it lacked
C12_Witness ==
  /\ JustWritten
  /\ before = JsonFile(LegacyDoc)
  /\ \E j \in 1..Len(all_lots) :
       /\ PriceGiven(all_lots[j])
       /\ RowIdGiven(all_lots[j])
       /\ Catalogue[all_lots[j]]["row_id"] = <<"7">>
       /\ Get(Catalogue[all_lots[j]], "title") # None
  /\ file[i - 1].doc[1]["title"] = JNull
  /\ PayloadKeys \subseteq DOMAIN file[i - 1].doc[1]

(***************************************************************************)
(* fetch_all_lots request by request: the tasks of a window are started    *)
(* in list order and return in any order; gather hands their results back  *)
(* in list order once all have returned, and raises when one raises        *)
(***************************************************************************)
\* the pages of the crawled source that may have listings: two in the first window, one in the second
CrawlPages == {2, 3, 11}

\* what such a page serves when it is not empty (positions in Catalogue)
ServedOn(p) == IF p = 2 THEN <<1>> ELSE IF p = 3 THEN <<2, 3>> ELSE <<4>>

\* the transport errors of a crawl
MaxErrors == 1

\* a task of the window: the coroutine fetch_page(session, base, p) before it
\* has sent its request, while it awaits the response, and after
Created(p) == <<"created", p>>

Waiting(p) == <<"waiting", p>>

Done(p, lots) == <<"done", p, lots>>

Raised(p) == <<"raised", p>>

\* tasks = [fetch_page(session, base, p) for p in range(page, page + CONCURRENCY)]
NewTasks(pg) == [k \in 1..Cardinality(Window(pg)) |-> Created(pg + k - 1)]

\* variant: the values returned, last task first
resultsReversed == [k \in DOMAIN tasks |-> tasks[Len(tasks) + 1 - k][3]]

\* results = await asyncio.gather(*tasks): the values returned, in list order
results == [k \in DOMAIN tasks |-> tasks[k][3]]

\* the loop over results: what all_lots.extend appends, and got_any
RECURSIVE ExtendAll(_)
ExtendAll(rs) == IF rs = <<>> THEN <<>> ELSE Head(rs) \o ExtendAll(Tail(rs))

GotAny(rs) == \E k \in DOMAIN rs : rs[k] # <<>>

\* variant: the next window starts one page late
NextPageLate(pg) == pg + CONCURRENCY + 1

\* page += CONCURRENCY
NextPage(pg) == pg + CONCURRENCY

InitCrawl ==
  /\ \E full \in SUBSET CrawlPages :
       remote = [s \in Sources |-> [p \in CrawlPages |-> IF p \in full THEN ServedOn(p) ELSE <<>>]]
  /\ spare \in {0, MaxErrors}
  /\ pc = "fetching"
  /\ file = [s \in Sources |-> AbsentFile]
  /\ file0 = [s \in Sources |-> "absent"]
  /\ runs = 1
  /\ i = 1
  /\ page = 1
  /\ all_lots = <<>>
  /\ new_lots = <<>>
  /\ existing = <<>>
  /\ added = 0
  /\ updated = 0
  /\ total = 0
  /\ before = AbsentFile
  /\ written = {}
  /\ rerun = FALSE
  /\ iso_s = NoCall
  /\ iso_ret = NoCall
  /\ tasks = <<>>
  /\ requested = <<>>
  /\ overtook = FALSE
  /\ pick_lot = NoCall
  /\ pick_ret = NoCall

\* the top of the while loop: the coroutines of the window are made and handed to gather
GatherStarts ==
  /\ pc = "fetching"
  /\ tasks = <<>>
  /\ tasks' = NewTasks(page)
  /\ UNCHANGED <<world, file, pc, runs, i, crawl, merge, hist, spare, call, requested, overtook>>

\* the event loop starts the next task of the list: session.get sends the request
IssueRequest ==
  /\ pc = "fetching"
  /\ \E k \in DOMAIN tasks :
       /\ tasks[k][1] = "created"
       /\ \A j \in 1..(k - 1) : tasks[j][1] # "created"
       /\ tasks' = [tasks EXCEPT ![k] = Waiting(tasks[k][2])]
       /\ requested' = Append(requested, tasks[k][2])
  /\ UNCHANGED <<world, file, pc, runs, i, crawl, merge, hist, spare, call, overtook>>

\* the response of task k arrives: fetch_page returns the result_page of its page
PageReturns(k) ==
  /\ pc = "fetching"
  /\ k \in DOMAIN tasks
  /\ tasks[k][1] = "waiting"
  /\ tasks' = [tasks EXCEPT ![k] = Done(tasks[k][2], result_page(i, tasks[k][2]))]
  /\ overtook' =
       (overtook \/ (/\ result_page(i, tasks[k][2]) # <<>>
                     /\ \E j \in 1..(k - 1) :
                          tasks[j][1] = "waiting" /\ result_page(i, tasks[j][2]) # <<>>))
  /\ UNCHANGED <<world, file, pc, runs, i, crawl, merge, hist, spare, call, requested>>

\* the request of task k fails (raise_for_status, connection error, timeout):
\* gather re-raises at once and nothing catches it up to asyncio.run
PageRaises(k) ==
  /\ pc = "fetching"
  /\ k \in DOMAIN tasks
  /\ tasks[k][1] = "waiting"
  /\ spare > 0
  /\ spare' = spare - 1
  /\ tasks' = [tasks EXCEPT ![k] = Raised(tasks[k][2])]
  /\ pc' = "crashed"
  /\ UNCHANGED <<world, file, runs, i, crawl, merge, hist, call, requested, overtook>>

\* every task has returned: gather returns, the loop over results, break or the next window
GatherReturns ==
  /\ pc = "fetching"
  /\ tasks # <<>>
  /\ \A k \in DOMAIN tasks : tasks[k][1] = "done"
  /\ all_lots' = all_lots \o ExtendAll(results)
  /\ IF GotAny(results)
     THEN page' = NextPage(page) /\ pc' = "fetching"
     ELSE page' = page /\ pc' = "loading"
  /\ tasks' = <<>>
  /\ UNCHANGED <<world, file, runs, i, merge, hist, spare, call, requested, overtook>>

NextCrawl ==
  \/ GatherStarts
  \/ IssueRequest
  \/ \E k \in DOMAIN tasks : PageReturns(k)
  \/ \E k \in DOMAIN tasks : PageRaises(k)
  \/ GatherReturns

SpecCrawl == InitCrawl /\ [][NextCrawl]_vars

\* the event loop runs every task that can run, and (the premise of C15) every
\* request that was sent gets its response or its error
SpecCrawlFair ==
  /\ SpecCrawl
  /\ WF_vars(GatherStarts)
  /\ WF_vars(IssueRequest)
  /\ WF_vars(GatherReturns)
  /\ \A k \in 1..CONCURRENCY : WF_vars(PageReturns(k) \/ PageRaises(k))

(***************************************************************************)
(* C13, C14, C15: the windows of fetch_all_lots                            *)
(***************************************************************************)
\* the pages whose request is outstanding
InFlight == {tasks[k][2] : k \in {j \in DOMAIN tasks : tasks[j][1] = "waiting"}}

\* the pages whose request has completed with a result
Completed == {tasks[k][2] : k \in {j \in DOMAIN tasks : tasks[j][1] = "done"}}

\* the window a page belongs to, counting from 1
WindowOf(p) == ((p - 1) \div CONCURRENCY) + 1

PagesOfWindow(w) == (CONCURRENCY * (w - 1) + 1)..(CONCURRENCY * w)

\* a request is sent in this step; the page it asks for
Requests == Len(requested') = Len(requested) + 1

RequestedPage == requested'[Len(requested')]

\* the loop decides in this step: the next window, or the break
Decides == pc = "fetching" /\ (page' # page \/ pc' = "loading")

\* C13: a request for a page is sent only when no request of another window
\* is outstanding; the loop goes on to the next window or breaks only when
\* all CONCURRENCY requests of the current window have completed; there are
\* never more than CONCURRENCY requests in flight.
C13_WindowBarrier ==
  [][/\ Requests => \A p \in InFlight : WindowOf(p) = WindowOf(RequestedPage)
     /\ Decides =>
          /\ InFlight = {}
          /\ Completed = PagesOfWindow(WindowOf(page))
          /\ Cardinality(Completed) = CONCURRENCY
     /\ Cardinality(InFlight) <= CONCURRENCY
     /\ Cardinality(InFlight') <= CONCURRENCY]_vars

\* the ten requests of the second window are in flight
C13_Witness ==
  /\ pc = "fetching"
  /\ page = CONCURRENCY + 1
  /\ InFlight = PagesOfWindow(2)

\* the result pages of pages lo..hi of source s, one after the other
RECURSIVE Concatenated(_, _, _)
Concatenated(s, lo, hi) ==
  IF lo > hi THEN <<>> ELSE result_page(s, lo) \o Concatenated(s, lo + 1, hi)

\* fetch_all_lots has returned
CrawlDone == pc = "loading" /\ requested # <<>>

\* C14: whatever the order in which the responses arrive, the list
\* fetch_all_lots returns is the result pages of the pages requested, one
\* after the other in ascending page number.
C14_PageOrder ==
  CrawlDone => all_lots = Concatenated(i, 1, Len(requested))

\* page 3 returned its listings while page 2 was awaited, and the list has
\* those of page 2 first
C14_Witness ==
  /\ CrawlDone
  /\ overtook
  /\ Len(all_lots) >= Len(ServedOn(2)) + Len(ServedOn(3))
  /\ SubSeq(all_lots, 1, Len(ServedOn(2)) + Len(ServedOn(3))) = ServedOn(2) \o ServedOn(3)

\* every page of window w is empty
EmptyWindow(w) == \A p \in PagesOfWindow(w) : result_page(i, p) = <<>>

\* the index of the first window whose pages are all empty
FirstEmptyWindow ==
  CHOOSE w \in 1..(Cardinality(CrawlPages) + 1) :
    EmptyWindow(w) /\ \A v \in 1..(w - 1) : ~EmptyWindow(v)

\* C15: when every request completes, fetch_all_lots ends: it returns or the
\* error of a page ends it. When it returns, the pages requested are those
\* of the windows up to the first all-empty one and each was requested once;
\* no page is ever requested twice, a failed one included.
C15_CrawlEnds ==
  /\ <>(pc \in {"loading", "crashed"})
  /\ [](CrawlDone =>
          /\ {requested[k] : k \in DOMAIN requested} = 1..(CONCURRENCY * FirstEmptyWindow)
          /\ Len(requested) = CONCURRENCY * FirstEmptyWindow)
  /\ [](\A j, k \in DOMAIN requested : j # k => requested[j] # requested[k])

\* the crawl returned after three windows, the third one empty
C15_Witness ==
  /\ CrawlDone
  /\ FirstEmptyWindow = 3
  /\ Len(requested) = 3 * CONCURRENCY

(***************************************************************************)
(* pick_sold_date on its own: one call on each of a set of listings        *)
(***************************************************************************)
\* a field the listing does not have
Absent == <<"absent">>

\* what each of the three fields may hold
ExtendedEndTimes ==
  {Absent, None, <<>>, PyInt(1709303400),
   <<"2", "0", "2", "4", "-", "0", "3", "-", "0", "1", "T", "1", "4", ":", "3", "0", ":", "0", "0", "Z">>}

EffectiveEndTimes ==
  {Absent, None, <<>>,
   <<"2", "0", "2", "4", "-", "0", "3", "-", "0", "1", "T", "0", "1", ":", "3", "0", ":", "0", "0", "+", "0", "2", ":", "0", "0">>}

LastUpdateds ==
  {Absent, None, <<>>, <<"n", "o", "t", "-", "a", "-", "d", "a", "t", "e">>,
   <<"2", "0", "2", "4", "-", "0", "3", "-", "0", "2">>}

\* what the auction field may be: absent, null, {} or a dict
AuctionShapes == {"absent", "null", "empty", "dict"}

\* the nested auction dict with field effective_end_time = a (none when a is Absent)
AuctionDict(a) ==
  PyDict([k \in {"title"} \cup (IF a = Absent THEN {} ELSE {"effective_end_time"}) |->
            IF k = "title" THEN <<"x">> ELSE a])

\* the listing with extended_end_time e, auction of shape sh holding a, last_updated l
PickLot(e, sh, a, l) ==
  [k \in {"row_id"} \cup (IF e = Absent THEN {} ELSE {"extended_end_time"})
                    \cup (IF sh = "absent" THEN {} ELSE {"auction"})
                    \cup (IF l = Absent THEN {} ELSE {"last_updated"}) |->
     CASE k = "row_id" -> <<"7">>
       [] k = "extended_end_time" -> e
       [] k = "auction" -> (IF sh = "null" THEN None
                            ELSE IF sh = "empty" THEN PyDict(EmptyDict) ELSE AuctionDict(a))
       [] k = "last_updated" -> l]

PickArguments ==
  {PickLot(e, sh, a, l) : e \in ExtendedEndTimes, sh \in AuctionShapes, a \in EffectiveEndTimes, l \in LastUpdateds}

InitPick ==
  /\ pick_lot \in PickArguments
  /\ pick_ret = NoCall
  /\ pc = "pick"
  /\ remote = [s \in Sources |-> [p \in Pages |-> <<>>]]
  /\ file = [s \in Sources |-> AbsentFile]
  /\ file0 = [s \in Sources |-> "absent"]
  /\ spare = 0
  /\ runs = 1
  /\ i = 1
  /\ page = 1
  /\ all_lots = <<>>
  /\ new_lots = <<>>
  /\ existing = <<>>
  /\ added = 0
  /\ updated = 0
  /\ total = 0
  /\ before = AbsentFile
  /\ written = {}
  /\ rerun = FALSE
  /\ iso_s = NoCall
  /\ iso_ret = NoCall
  /\ tasks = <<>>
  /\ requested = <<>>
  /\ overtook = FALSE

\* the call returns
CallPick ==
  /\ pc = "pick"
  /\ pick_ret = NoCall
  /\ pick_ret' = pick_sold_date(pick_lot)
  /\ UNCHANGED <<world, file, pc, runs, i, crawl, merge, hist, spare, iso_s, iso_ret, gather, pick_lot>>

NextPick == CallPick

SpecPick == InitPick /\ [][NextPick]_vars

(***************************************************************************)
(* C16: the order of the three timestamps                                  *)
(***************************************************************************)
\* the field is there and not empty
NonEmpty(v) == v \notin {Absent, None, <<>>}

\* the call on the listing made of e, sh, a, l has returned
Picked(e, sh, a, l) == pc = "pick" /\ pick_lot = PickLot(e, sh, a, l) /\ pick_ret # NoCall

\* the effective_end_time the listing has: that of its auction dict, if it has one
Effective(sh, a) == IF sh = "dict" THEN a ELSE Absent

\* C16: pick_sold_date returns what iso_to_date_str returns for the first
\* non-empty of extended_end_time, auction.effective_end_time, last_updated,
\* in that order, and null when all three are absent or empty.
C16_FirstNonEmpty ==
  \A e \in ExtendedEndTimes, sh \in AuctionShapes, a \in EffectiveEndTimes, l \in LastUpdateds :
    Picked(e, sh, a, l) =>
      pick_ret = (IF NonEmpty(e) THEN iso_to_date_str(e)
                  ELSE IF NonEmpty(Effective(sh, a)) THEN iso_to_date_str(a)
                  ELSE IF NonEmpty(l) THEN iso_to_date_str(l)
                  ELSE None)

\* extended_end_time is empty, the auction's effective_end_time and
\* last_updated are set: the date is that of effective_end_time
C16_Witness ==
  /\ \E a \in EffectiveEndTimes, l \in LastUpdateds :
       /\ Picked(<<>>, "dict", a, l)
       /\ NonEmpty(a)
       /\ NonEmpty(l)
       /\ pick_ret = iso_to_date_str(a)
       /\ pick_ret # iso_to_date_str(l)

(***************************************************************************)
(* C17: a sold listing without row_id                                      *)
(***************************************************************************)
\* the merge step at hand meets a sold listing whose row_id is absent, null or empty
MergesUnidentified ==
  /\ pc = "merging"
  /\ new_lots # <<>>
  /\ PriceGiven(Head(new_lots))
  /\ ~RowIdGiven(Head(new_lots))

\* the listing at position c with its row_id replaced by v
WithRowId(c, v) == [k \in DOMAIN Catalogue[c] \cup {"row_id"} |-> IF k = "row_id" THEN v ELSE Catalogue[c][k]]

\* the records and the counts as the merge loop holds them
Merged == [existing |-> existing, added |-> added, updated |-> updated]

\* C17: the merge step of a sold listing whose row_id is absent, null or
\* empty leaves the records and the counts added and updated as they are and
\* goes on with the next listing; the run writes its dataset, with a record
\* for every sold listing of the crawl that has a row_id.
C17_SkipsUnidentified ==
  [][/\ MergesUnidentified =>
          /\ existing' = existing
          /\ added' = added
          /\ updated' = updated
          /\ new_lots' = Tail(new_lots)
          /\ pc' = "merging"
          /\ file' = file
     /\ pc = "merging" =>
          \A c \in 1..Len(Catalogue), v \in {None, <<>>} :
            PriceGiven(c) => MergeLot(bases[i], Merged, WithRowId(c, v)) = Merged
     /\ Writes =>
          \A j \in 1..Len(all_lots) :
            (PriceGiven(all_lots[j]) /\ RowIdGiven(all_lots[j])) =>
              RowIdOf(all_lots[j]) \in IdSet(file'[i].doc)]_vars

\* a crawl returned a sold listing without row_id, then a sold one with a
\* row_id: the dataset written from nothing has the one record of the second
C17_Witness ==
  /\ JustWritten
  /\ before.state = "absent"
  /\ Len(all_lots) = 2
  /\ PriceGiven(all_lots[1]) /\ ~RowIdGiven(all_lots[1])
  /\ PriceGiven(all_lots[2]) /\ RowIdGiven(all_lots[2])
  /\ IdSeq(file[i - 1].doc) = <<RowIdOf(all_lots[2])>>
  /\ added = 1
  /\ updated = 0

(***************************************************************************)
(* C18: the counts of the summary line                                     *)
(***************************************************************************)
\* the dataset the run of source i - 1 started from was absent or written by the program
FromOwnDataset == file0[i - 1] = "absent"

\* C18: a run that starts from no dataset file or from one the program wrote
\* writes as many records as there were plus added, and counts no record
\* twice: added + updated is at most the number of records written (so a
\* record the run created is not counted in updated as well), even when
\* the crawl returns several listings with one row_id.
C18_CountsOncePerRecord ==
  (JustWritten /\ FromOwnDataset) =>
    /\ total = Len(before.doc) + added
    /\ total = Len(file[i - 1].doc)
    /\ added + updated <= total

============================================================================
